---- MODULE Spec2Model ----
(***************************************************************************)
(* Rename and completion feature providers of texlab:                      *)
(*   src/src/rename/latex_label.rs   label prepare-rename / rename          *)
(*   src/src/rename/mod.rs           the two top-level ChoiceProviders      *)
(*   src/src/completion/bibtex/entry_type.rs   entry-type completion        *)
(* Documents are values: a LaTeX document is the sequence of its commands,  *)
(* one per line, a BibTeX document the sequence of its declarations, one    *)
(* per line.  Spans are computed from that layout.                          *)
(***************************************************************************)
EXTENDS Integers, Sequences, FiniteSets, TLC

VARIABLES workspace, relatedOthers, items, request, response, cp

vars == <<workspace, relatedOthers, items, request, response, cp>>

-----------------------------------------------------------------------------
(* Bounds of the model *)

\* most commands in the current LaTeX document
MaxCmds == 2

\* most declarations in a BibTeX document
MaxDecls == 2

-----------------------------------------------------------------------------
(* Option<T>: None is the empty sequence, Some(x) the one-element sequence *)

None == << >>

Some(x) == << x >>

is_some(o) == o # None

unwrap(o) == o[1]

-----------------------------------------------------------------------------
(* Positions and ranges *)

Position_new(l, c) == [line |-> l, character |-> c]

\* Position orders by line, then by character
Position_le(p, q) ==
    \/ p.line < q.line
    \/ p.line = q.line /\ p.character <= q.character

Range_new_simple(l1, c1, l2, c2) ==
    [start |-> Position_new(l1, c1), end |-> Position_new(l2, c2)]

\* RangeExt::contains: both ends of the range are inside it
Range_contains(range, pos) ==
    /\ Position_le(range.start, pos)
    /\ Position_le(pos, range.end)

-----------------------------------------------------------------------------
(* LaTeX documents *)

Cmd(n, a) == [name |-> n, args |-> a]

\* the commands a LaTeX document is made of
Commands ==
    { Cmd("label", <<"foo">>), Cmd("ref", <<"foo", "Foo">>), Cmd("foo", <<"foo">>) }

\* the commands the symbol table records as labels
LabelCommandNames == {"label", "ref"}

RECURSIVE ArgsWidth(_)
\* the width of comma separated words
ArgsWidth(args) ==
    IF args = << >> THEN 0
    ELSE Len(Head(args)) + (IF Len(args) > 1 THEN 1 ELSE 0) + ArgsWidth(Tail(args))

\* the width of the text \name{w1,w2}
CmdWidth(cmd) == 1 + Len(cmd.name) + 1 + ArgsWidth(cmd.args) + 1

\* the column where word k of the command starts
WordStart(cmd, k) ==
    1 + Len(cmd.name) + 1 + ArgsWidth(SubSeq(cmd.args, 1, k - 1))
      + (IF k > 1 THEN 1 ELSE 0)

\* the token of word k of the command on line l: its text and its span
NameToken(cmd, l, k) ==
    [text  |-> cmd.args[k],
     start |-> Position_new(l, WordStart(cmd, k)),
     end   |-> Position_new(l, WordStart(cmd, k) + Len(cmd.args[k]))]

\* Span::range and LatexToken::range
Span_range(span) == [start |-> span.start, end |-> span.end]

DocumentContent_Latex(cmds) == [kind |-> "Latex", cmds |-> cmds, decls |-> << >>]

DocumentContent_Bibtex(decls) == [kind |-> "Bibtex", cmds |-> << >>, decls |-> decls]

RECURSIVE LabelLines(_, _)
\* the indices i..Len(cmds) of the commands that are labels, in source order
LabelLines(cmds, i) ==
    IF i > Len(cmds) THEN << >>
    ELSE (IF cmds[i].name \in LabelCommandNames THEN << i >> ELSE << >>)
         \o LabelLines(cmds, i + 1)

\* table.labels: the label commands of the document, in source order,
\* each with the line it stands on
table_labels(content) ==
    LET idx == LabelLines(content.cmds, 1)
    IN  [j \in 1..Len(idx) |-> [cmd |-> content.cmds[idx[j]], line |-> idx[j] - 1]]

\* label.names(&table): the name tokens of one label
label_names(label) ==
    [k \in 1..Len(label.cmd.args) |-> NameToken(label.cmd, label.line, k)]

RECURSIVE flat_map_names(_)
\* table.labels.iter().flat_map(|label| label.names(&table))
flat_map_names(labels) ==
    IF labels = << >> THEN << >>
    ELSE label_names(Head(labels)) \o flat_map_names(Tail(labels))

-----------------------------------------------------------------------------
(* src/src/rename/latex_label.rs *)

RECURSIVE find_first(_, _)
\* Iterator::find: the first token whose range contains pos
find_first(tokens, pos) ==
    IF tokens = << >> THEN None
    ELSE IF Range_contains(Span_range(Head(tokens)), pos) THEN Some(Head(tokens))
    ELSE find_first(Tail(tokens), pos)

\* a mutation of find_label: only the first name of each label is looked at
find_label_first_name(content, pos) ==
    IF content.kind = "Latex"
    THEN LET labels == table_labels(content)
             firsts == [j \in 1..Len(labels) |-> label_names(labels[j])[1]]
         IN  find_first(firsts, pos)
    ELSE None

\* a mutation of find_label: a name matches when it stands on the line of pos
find_label_same_line(content, pos) ==
    IF content.kind = "Latex"
    THEN LET names == flat_map_names(table_labels(content))
             same == SelectSeq(names, LAMBDA t : t.start.line = pos.line)
         IN  IF same = << >> THEN None ELSE Some(Head(same))
    ELSE None

\* find_label: the span of the label name under pos
find_label(content, pos) ==
    IF content.kind = "Latex"
    THEN find_first(flat_map_names(table_labels(content)), pos)
    ELSE None

\* LatexLabelPrepareRenameProvider::execute
LatexLabelPrepareRenameProvider_execute(req) ==
    LET found == find_label(req.current.content, req.params.position)
    IN  IF is_some(found) THEN Some(Span_range(unwrap(found))) ELSE None

TextEdit_new(range, new_text) == [range |-> range, new_text |-> new_text]

\* to_lowercase on the words of the documents
to_lowercase(text) == IF text = "Foo" THEN "foo" ELSE text

RECURSIVE filter_map_edits_nocase(_, _, _)
\* a mutation of the filter: the texts are compared without regard to case
filter_map_edits_nocase(tokens, text, new_name) ==
    IF tokens = << >> THEN << >>
    ELSE (IF to_lowercase(Head(tokens).text) = to_lowercase(text)
          THEN << TextEdit_new(Span_range(Head(tokens)), new_name) >>
          ELSE << >>)
         \o filter_map_edits_nocase(Tail(tokens), text, new_name)

RECURSIVE filter_map_edits_by_new_name(_, _, _)
\* a mutation of the filter: the texts are compared with the new name
filter_map_edits_by_new_name(tokens, text, new_name) ==
    IF tokens = << >> THEN << >>
    ELSE (IF Head(tokens).text = new_name
          THEN << TextEdit_new(Span_range(Head(tokens)), new_name) >>
          ELSE << >>)
         \o filter_map_edits_by_new_name(Tail(tokens), text, new_name)

RECURSIVE filter_map_edits(_, _, _)
\* .filter(|label| label.text() == name.text).map(|label| TextEdit::new(..))
filter_map_edits(tokens, text, new_name) ==
    IF tokens = << >> THEN << >>
    ELSE (IF Head(tokens).text = text
          THEN << TextEdit_new(Span_range(Head(tokens)), new_name) >>
          ELSE << >>)
         \o filter_map_edits(Tail(tokens), text, new_name)

\* HashMap::insert
HashMap_insert(map, key, value) ==
    [k \in (DOMAIN map) \cup {key} |-> IF k = key THEN value ELSE map[k]]

RECURSIVE rename_changes_skip_empty(_, _, _, _)
\* a mutation of the loop: a document without edits gets no entry
rename_changes_skip_empty(docs, i, name, new_name) ==
    IF i = 0 THEN << >>
    ELSE LET before == rename_changes_skip_empty(docs, i - 1, name, new_name)
             doc == docs[i]
             edits == filter_map_edits(flat_map_names(table_labels(doc.content)),
                                       name.text, new_name)
         IN  IF doc.content.kind = "Latex" /\ edits # << >>
             THEN HashMap_insert(before, doc.uri, edits)
             ELSE before

RECURSIVE rename_changes(_, _, _, _)
\* the loop over req.related(): changes after the first i documents
rename_changes(docs, i, name, new_name) ==
    IF i = 0 THEN << >>
    ELSE LET before == rename_changes(docs, i - 1, name, new_name)
             doc == docs[i]
         IN  IF doc.content.kind = "Latex"
             THEN HashMap_insert(before, doc.uri,
                      filter_map_edits(flat_map_names(table_labels(doc.content)),
                                       name.text, new_name))
             ELSE before

WorkspaceEdit_new(changes) == [changes |-> changes]

\* a mutation of rename: an empty new name is refused
LatexLabelRenameProvider_execute_reject_empty(req) ==
    LET found == find_label(req.current.content, req.params.position)
    IN  IF found = None \/ req.params.new_name = "" THEN None
        ELSE Some(WorkspaceEdit_new(
                 rename_changes(req.related, Len(req.related), unwrap(found),
                                req.params.new_name)))

\* LatexLabelRenameProvider::execute
LatexLabelRenameProvider_execute(req) ==
    LET found == find_label(req.current.content, req.params.position)
    IN  IF found = None THEN None
        ELSE Some(WorkspaceEdit_new(
                 rename_changes(req.related, Len(req.related), unwrap(found),
                                req.params.new_name)))

-----------------------------------------------------------------------------
(* BibTeX documents and src/src/completion/bibtex/entry_type.rs *)

Decl(tag, ty, rest) == [tag |-> tag, ty |-> ty, rest |-> rest]

\* the declarations a BibTeX document is made of; a comment has no type field
Declarations ==
    { Decl("Entry", "@", ""), Decl("Entry", "@article", "{foo,}"),
      Decl("Preamble", "@preamble", "{x}"), Decl("String", "@string", "{x=y}"),
      Decl("Comment", "", "foo") }

DeclWidth(decl) == Len(decl.ty) + Len(decl.rest)

\* ty.range(): the span of the type token of the declaration on line l
ty_range(decl, l) == Range_new_simple(l, 0, l, Len(decl.ty))

\* language_data().entry_types
entry_types == <<"article", "book", "misc">>

\* factory::create_entry_type
create_entry_type(ty) == [label |-> ty, kind |-> "EntryType"]

\* BibtexEntryTypeCompletionProvider::new
BibtexEntryTypeCompletionProvider_new ==
    [i \in 1..Len(entry_types) |-> create_entry_type(entry_types[i])]

RECURSIVE entry_type_loop_no_entry(_, _, _, _)
\* a mutation of the loop: the Entry arm is missing
entry_type_loop_no_entry(self_items, decls, i, pos) ==
    IF i > Len(decls) THEN << >>
    ELSE IF /\ decls[i].tag \in {"Preamble", "String"}
            /\ Range_contains(ty_range(decls[i], i - 1), pos)
         THEN self_items
         ELSE entry_type_loop_no_entry(self_items, decls, i + 1, pos)

RECURSIVE entry_type_loop_whole_decl(_, _, _, _)
\* a mutation of the loop: the range of the whole declaration is tested
entry_type_loop_whole_decl(self_items, decls, i, pos) ==
    IF i > Len(decls) THEN << >>
    ELSE IF /\ decls[i].tag \in {"Preamble", "String", "Entry"}
            /\ Range_contains(Range_new_simple(i - 1, 0, i - 1, DeclWidth(decls[i])), pos)
         THEN self_items
         ELSE entry_type_loop_whole_decl(self_items, decls, i + 1, pos)

RECURSIVE entry_type_loop(_, _, _, _)
\* the loop over tree.root.children from declaration i on
entry_type_loop(self_items, decls, i, pos) ==
    IF i > Len(decls) THEN << >>
    ELSE IF /\ decls[i].tag \in {"Preamble", "String", "Entry"}
            /\ Range_contains(ty_range(decls[i], i - 1), pos)
         THEN self_items
         ELSE entry_type_loop(self_items, decls, i + 1, pos)

\* BibtexEntryTypeCompletionProvider::execute
BibtexEntryTypeCompletionProvider_execute(self_items, req) ==
    IF req.current.content.kind = "Bibtex"
    THEN entry_type_loop(self_items, req.current.content.decls, 1, req.params.position)
    ELSE << >>

-----------------------------------------------------------------------------
(* The workspace and the requests built from it *)

\* the sequences over S of length at most n
SeqsUpTo(S, n) == UNION { [1..k -> S] : k \in 0..n }

\* the identities of the documents of the workspace
MainUri == "main"

OtherUris == <<"bar", "baz">>

Uris == {MainUri} \cup { OtherUris[i] : i \in DOMAIN OtherUris }

\* the contents of the current document when labels are renamed
LabelMainContents ==
    { DocumentContent_Latex(cmds) : cmds \in SeqsUpTo(Commands, MaxCmds) }
      \cup { DocumentContent_Bibtex(<< >>) }

\* the contents of the other documents when labels are renamed
LabelOtherContents ==
    { DocumentContent_Latex(<< >>),
      DocumentContent_Latex(<< Cmd("ref", <<"foo">>) >>),
      DocumentContent_Latex(<< Cmd("ref", <<"Foo">>) >>),
      DocumentContent_Latex(<< Cmd("foo", <<"foo">>), Cmd("label", <<"foo">>) >>),
      DocumentContent_Bibtex(<< >>) }

\* the names a label is renamed to
NewNames == {"bar", ""}

Max(S) == CHOOSE x \in S : \A y \in S : y <= x

\* the cursor positions: every line and column of a document, and one beyond
Positions ==
    { Position_new(l, c) : l \in 0..MaxCmds,
                           c \in 0..(Max({ CmdWidth(cmd) : cmd \in Commands }) + 1) }

\* the workspace holding the three documents
Workspace(main, bar, baz) ==
    [u \in Uris |-> IF u = MainUri THEN main ELSE IF u = "bar" THEN bar ELSE baz]

Document(uri) == [uri |-> uri, content |-> workspace[uri]]

RECURSIVE related_documents(_, _)
\* the documents among OtherUris[1..i] that are in the set related, in order
related_documents(related, i) ==
    IF i = 0 THEN << >>
    ELSE related_documents(related, i - 1)
         \o (IF OtherUris[i] \in related THEN << Document(OtherUris[i]) >>
             ELSE << >>)

\* FeatureRequest: the parameters, the current document and the related
\* documents, the current one among them
FeatureRequest(params) ==
    [params  |-> params,
     current |-> Document(MainUri),
     related |-> << Document(MainUri) >> \o related_documents(relatedOthers, Len(OtherUris))]

TextDocumentPositionParams(pos) == [position |-> pos, new_name |-> ""]

RenameParams(pos, new_name) == [position |-> pos, new_name |-> new_name]

\* the ChoiceProvider of a request that has not been made
CpIdle ==
    [pc |-> "idle", idx |-> 0, inflight |-> None, invoked |-> << >>,
     returned |-> << >>, would |-> << >>]

-----------------------------------------------------------------------------
(* The label providers, run on their own as FeatureTester runs them *)

InitLabel ==
    /\ \E main \in LabelMainContents, bar \in LabelOtherContents :
           workspace = Workspace(main, bar, DocumentContent_Latex(<< Cmd("ref", <<"foo">>) >>))
    /\ relatedOthers \in SUBSET { OtherUris[i] : i \in DOMAIN OtherUris }
    /\ items = BibtexEntryTypeCompletionProvider_new
    /\ request = None
    /\ response = None
    /\ cp = CpIdle

\* test_prepare_rename(LatexLabelPrepareRenameProvider)
TestLabelPrepareRename ==
    \E pos \in Positions :
        LET req == FeatureRequest(TextDocumentPositionParams(pos))
        IN  /\ request = None
            /\ request' = Some([op |-> "prepare", req |-> req])
            /\ response' = Some(LatexLabelPrepareRenameProvider_execute(req))
            /\ UNCHANGED <<workspace, relatedOthers, items, cp>>

\* test_rename(LatexLabelRenameProvider)
TestLabelRename ==
    \E pos \in Positions, new_name \in NewNames :
        LET req == FeatureRequest(RenameParams(pos, new_name))
        IN  /\ request = None
            /\ request' = Some([op |-> "rename", req |-> req])
            /\ response' = Some(LatexLabelRenameProvider_execute(req))
            /\ UNCHANGED <<workspace, relatedOthers, items, cp>>

\* the response is handed to the caller; the provider keeps nothing of it
Respond ==
    /\ request # None
    /\ response # None
    /\ request' = None
    /\ response' = None
    /\ UNCHANGED <<workspace, relatedOthers, items, cp>>

NextLabel == TestLabelPrepareRename \/ TestLabelRename \/ Respond

SpecLabel == InitLabel /\ [][NextLabel]_vars

-----------------------------------------------------------------------------
(* The entry-type completion provider, run on its own as test_feature runs it *)

\* the contents of the current document when entry types are completed
CompletionContents ==
    { DocumentContent_Bibtex(decls) : decls \in SeqsUpTo(Declarations, MaxDecls) }
      \cup { DocumentContent_Latex(<< >>),
             DocumentContent_Latex(<< Cmd("label", <<"foo">>) >>) }

CompletionPositions ==
    { Position_new(l, c) : l \in 0..MaxDecls,
                           c \in 0..(Max({ DeclWidth(d) : d \in Declarations }) + 1) }

CompletionParams(pos) == [position |-> pos, new_name |-> ""]

InitCompletion ==
    /\ \E main \in CompletionContents :
           workspace = Workspace(main, DocumentContent_Latex(<< >>),
                                 DocumentContent_Latex(<< >>))
    /\ relatedOthers = {}
    /\ items = BibtexEntryTypeCompletionProvider_new
    /\ request = None
    /\ response = None
    /\ cp = CpIdle

\* test_feature(BibtexEntryTypeCompletionProvider::new(), ..)
TestEntryTypeCompletion ==
    \E pos \in CompletionPositions :
        LET req == FeatureRequest(CompletionParams(pos))
        IN  /\ request = None
            /\ request' = Some([op |-> "completion", req |-> req])
            /\ response' = Some(BibtexEntryTypeCompletionProvider_execute(items, req))
            /\ UNCHANGED <<workspace, relatedOthers, items, cp>>

NextCompletion == TestEntryTypeCompletion \/ Respond

SpecCompletion == InitCompletion /\ [][NextCompletion]_vars

-----------------------------------------------------------------------------
(* src/src/rename/mod.rs: the ChoiceProviders of prepare-rename and rename *)

\* a mutation of PrepareRenameProvider::new: the label provider and the
\* environment provider are registered the other way round
PrepareRenameProvider_new_swapped ==
    <<"BibtexEntry", "LatexCommand", "LatexLabel", "LatexEnvironment">>

\* PrepareRenameProvider::new: the providers in registration order
PrepareRenameProvider_new ==
    <<"BibtexEntry", "LatexCommand", "LatexEnvironment", "LatexLabel">>

\* a mutation of RenameProvider::new: the label provider is registered first
RenameProvider_new_label_first ==
    <<"LatexLabel", "BibtexEntry", "LatexCommand", "LatexEnvironment">>

\* RenameProvider::new: the providers in registration order
RenameProvider_new ==
    <<"BibtexEntry", "LatexCommand", "LatexEnvironment", "LatexLabel">>

\* the providers whose code is not modelled: each returns absent or a result
\* of its own
ExternalProviders == {"BibtexEntry", "LatexCommand", "LatexEnvironment"}

\* self.provider of the top-level provider serving op
providers(op) ==
    IF op = "prepare" THEN PrepareRenameProvider_new ELSE RenameProvider_new

\* provider.execute(req): the label providers compute their result, the
\* others return what the request drew for them
provider_execute(p, op, req, would) ==
    IF p = "LatexLabel"
    THEN (IF op = "prepare" THEN LatexLabelPrepareRenameProvider_execute(req)
          ELSE LatexLabelRenameProvider_execute(req))
    ELSE would[p]

\* the contents of the current document when the top-level providers are run
ChoiceMainContents ==
    { DocumentContent_Latex(<< >>),
      DocumentContent_Latex(<< Cmd("label", <<"foo">>), Cmd("foo", <<"foo">>) >>),
      DocumentContent_Latex(<< Cmd("ref", <<"foo", "Foo">>) >>),
      DocumentContent_Bibtex(<< >>) }

InitChoice ==
    /\ \E main \in ChoiceMainContents :
           workspace = Workspace(main, DocumentContent_Latex(<< Cmd("ref", <<"foo">>) >>),
                                 DocumentContent_Latex(<< Cmd("ref", <<"foo">>) >>))
    /\ relatedOthers = {"bar"}
    /\ items = BibtexEntryTypeCompletionProvider_new
    /\ request = None
    /\ response = None
    /\ cp = CpIdle

\* PrepareRenameProvider::execute / RenameProvider::execute is called:
\* self.provider.execute(req) starts its loop
ChoiceExecute ==
    \E op \in {"prepare", "rename"}, pos \in Positions,
       would \in [ExternalProviders -> {None, Some("external")}] :
        LET req == FeatureRequest(IF op = "prepare"
                                  THEN TextDocumentPositionParams(pos)
                                  ELSE RenameParams(pos, "bar"))
        IN  /\ request = None
            /\ cp.pc = "idle"
            /\ request' = Some([op |-> op, req |-> req])
            /\ cp' = [CpIdle EXCEPT !.pc = "loop", !.idx = 1,
                         !.would = [p \in ExternalProviders |->
                                      IF would[p] = None THEN None
                                      ELSE Some([by |-> p])]]
            /\ UNCHANGED <<workspace, relatedOthers, items, response>>

\* provider.execute(req) is called for the next provider of the list
ChoiceInvoke ==
    /\ cp.pc = "loop"
    /\ cp.idx <= Len(providers(unwrap(request).op))
    /\ cp' = [cp EXCEPT !.pc = "await",
                         !.inflight = Some(providers(unwrap(request).op)[cp.idx]),
                         !.invoked = Append(@, providers(unwrap(request).op)[cp.idx])]
    /\ UNCHANGED <<workspace, relatedOthers, items, request, response>>

\* the awaited provider completes: a usable result is returned at once,
\* otherwise the loop goes on
ChoiceAwaited ==
    /\ cp.pc = "await"
    /\ LET p == unwrap(cp.inflight)
           item == provider_execute(p, unwrap(request).op, unwrap(request).req, cp.would)
       IN  IF is_some(item)
           THEN /\ cp' = [cp EXCEPT !.pc = "done", !.inflight = None,
                                    !.returned = Append(@, [provider |-> p, item |-> item])]
                /\ response' = Some(item)
           ELSE /\ cp' = [cp EXCEPT !.pc = "loop", !.inflight = None, !.idx = @ + 1,
                                    !.returned = Append(@, [provider |-> p, item |-> item])]
                /\ UNCHANGED response
    /\ UNCHANGED <<workspace, relatedOthers, items, request>>

\* the list is exhausted: the ChoiceProvider returns absent
ChoiceExhausted ==
    /\ cp.pc = "loop"
    /\ cp.idx > Len(providers(unwrap(request).op))
    /\ cp' = [cp EXCEPT !.pc = "done"]
    /\ response' = Some(None)
    /\ UNCHANGED <<workspace, relatedOthers, items, request>>

\* the result is handed to the caller
ChoiceRespond ==
    /\ cp.pc = "done"
    /\ cp' = CpIdle
    /\ request' = None
    /\ response' = None
    /\ UNCHANGED <<workspace, relatedOthers, items>>

NextChoice ==
    ChoiceExecute \/ ChoiceInvoke \/ ChoiceAwaited \/ ChoiceExhausted \/ ChoiceRespond

SpecChoice == InitChoice /\ [][NextChoice]_vars

-----------------------------------------------------------------------------
(* What the claims speak of, read off the documents *)

\* the request being served and the provider's answer to it
Served(op) == request # None /\ response # None /\ unwrap(request).op = op

Req == unwrap(request).req

Out == unwrap(response)

Cursor == Req.params.position

\* the name occurrences of a document: the words of its label commands
Occurrences(content) ==
    IF content.kind = "Latex"
    THEN UNION { { NameToken(content.cmds[i], i - 1, k) :
                     k \in DOMAIN content.cmds[i].args } :
                 i \in { j \in DOMAIN content.cmds :
                           content.cmds[j].name \in LabelCommandNames } }
    ELSE {}

\* the name occurrences of the current document that contain the cursor
OccurrencesAtCursor ==
    { o \in Occurrences(workspace[MainUri]) : Range_contains(Span_range(o), Cursor) }

\* the current document and the documents related to it
RelatedUris == {MainUri} \cup relatedOthers

LatexRelatedUris == { u \in RelatedUris : workspace[u].kind = "Latex" }

\* the occurrences of a related LaTeX document whose text is the given one
Matching(u, text) == { o \in Occurrences(workspace[u]) : o.text = text }

\* the edits of a mapping, each named by its document and its place in the list
EditSlots(changes) ==
    UNION { { <<u, i>> : i \in DOMAIN changes[u] } : u \in DOMAIN changes }

-----------------------------------------------------------------------------
(* Claims about the label providers, checked under SpecLabel *)

\* C1: a present rename result holds, over all its documents, exactly one
\* edit per name occurrence of the related LaTeX documents whose text equals
\* the resolved name, case-sensitively; each edit replaces that occurrence's
\* span by the new name, and nothing else is edited.
C1_RenameEditsExactlyMatchingOccurrences ==
    (Served("rename") /\ is_some(Out)) =>
        LET changes == unwrap(Out).changes
        IN  /\ OccurrencesAtCursor # {}
            /\ \A name \in OccurrencesAtCursor :
                  /\ Cardinality(EditSlots(changes))
                       = Cardinality(UNION { { <<u, o>> : o \in Matching(u, name.text) } :
                                             u \in LatexRelatedUris })
                  /\ \A u \in LatexRelatedUris : \A o \in Matching(u, name.text) :
                        /\ u \in DOMAIN changes
                        /\ Cardinality({ i \in DOMAIN changes[u] :
                                           changes[u][i].range = Span_range(o) }) = 1
                  /\ \A slot \in EditSlots(changes) :
                        /\ slot[1] \in LatexRelatedUris
                        /\ changes[slot[1]][slot[2]].new_text = Req.params.new_name
                        /\ \E o \in Matching(slot[1], name.text) :
                              changes[slot[1]][slot[2]].range = Span_range(o)

\* C1 witness: a rename over two related documents, one unrelated document
\* that names the label too, and an occurrence of another case left alone
C1_Witness ==
    /\ Served("rename") /\ is_some(Out)
    /\ relatedOthers = {"bar"}
    /\ workspace["bar"].kind = "Latex"
    /\ Len(unwrap(Out).changes[MainUri]) = 2
    /\ Len(unwrap(Out).changes["bar"]) = 1
    /\ \E o \in Occurrences(workspace[MainUri]) : o.text = "Foo"
    /\ \E o \in OccurrencesAtCursor : o.text = "foo"
    /\ Matching("baz", "foo") # {}

\* C2: the keys of a present rename result are exactly the LaTeX documents
\* among the current document and its related documents.
C2_RenameKeysAreRelatedLatexDocuments ==
    (Served("rename") /\ is_some(Out)) =>
        DOMAIN unwrap(Out).changes = LatexRelatedUris

\* C2 witness: a related LaTeX document without any occurrence has an empty
\* entry, and the unrelated document has none
C2_Witness ==
    /\ Served("rename") /\ is_some(Out)
    /\ relatedOthers = {"bar"}
    /\ workspace["bar"] = DocumentContent_Latex(<< >>)
    /\ DOMAIN unwrap(Out).changes = {MainUri, "bar"}
    /\ unwrap(Out).changes["bar"] = << >>

\* C3: rename returns absent whenever no name occurrence of the current
\* document contains the cursor: in an empty document, in a BibTeX document
\* and inside the argument of a command that is no label, whatever the
\* related documents and the new name are.
C3_RenameAbsentOutsideEveryOccurrence ==
    Served("rename") =>
        LET main == workspace[MainUri]
        IN  /\ OccurrencesAtCursor = {} => Out = None
            /\ main.kind = "Bibtex" => Out = None
            /\ (main.cmds = << >> /\ main.decls = << >>) => Out = None
            /\ (\E i \in DOMAIN main.cmds :
                   /\ main.cmds[i].name \notin LabelCommandNames
                   /\ Cursor.line = i - 1) => Out = None

\* C3 witness: the cursor is in the argument of \foo{foo} on a line after a
\* label, and a related document holds references
C3_Witness ==
    /\ Served("rename") /\ Out = None
    /\ workspace[MainUri] =
         DocumentContent_Latex(<< Cmd("label", <<"foo">>), Cmd("foo", <<"foo">>) >>)
    /\ Cursor = Position_new(1, 5)
    /\ relatedOthers = {"bar", "baz"}
    /\ Matching("bar", "foo") # {}
    /\ Req.params.new_name = "bar"

\* C4: prepare-rename returns the span of the name occurrence that contains
\* the cursor, be it a declaration or a reference, absent when no occurrence
\* contains the cursor, and never more than one span.
C4_PrepareRenameReturnsOccurrenceSpan ==
    Served("prepare") =>
        /\ \A o \in OccurrencesAtCursor : Out = Some(Span_range(o))
        /\ OccurrencesAtCursor = {} => Out = None
        /\ Len(Out) <= 1

\* C4 witness: the cursor is in the second name of \ref{foo,Foo}, on the
\* line after the declaration
C4_Witness ==
    /\ Served("prepare")
    /\ workspace[MainUri] =
         DocumentContent_Latex(<< Cmd("label", <<"foo">>), Cmd("ref", <<"foo", "Foo">>) >>)
    /\ Cursor = Position_new(1, 10)
    /\ Out = Some(Range_new_simple(1, 9, 1, 12))

\* C9: a present rename result has an entry for the current document, and
\* that entry holds an edit of the very span under the cursor, the span
\* prepare-rename reports.
C9_RenameEditsOccurrenceUnderCursor ==
    (Served("rename") /\ is_some(Out)) =>
        LET changes == unwrap(Out).changes
        IN  /\ MainUri \in DOMAIN changes
            /\ OccurrencesAtCursor # {}
            /\ \A o \in OccurrencesAtCursor :
                  /\ \E i \in DOMAIN changes[MainUri] :
                        changes[MainUri][i].range = Span_range(o)
                  /\ LatexLabelPrepareRenameProvider_execute(Req) = Some(Span_range(o))

\* C9 witness: the cursor is on a usage site, the declaration stands on
\* another line, and both are renamed
C9_Witness ==
    /\ Served("rename") /\ is_some(Out)
    /\ workspace[MainUri] =
         DocumentContent_Latex(<< Cmd("label", <<"foo">>), Cmd("ref", <<"foo", "Foo">>) >>)
    /\ Cursor = Position_new(1, 6)
    /\ unwrap(Out).changes[MainUri] =
         << TextEdit_new(Range_new_simple(0, 7, 0, 10), Req.params.new_name),
            TextEdit_new(Range_new_simple(1, 5, 1, 8), Req.params.new_name) >>

\* the request with the related documents and the new name replaced
AltRequest(related, new_name) ==
    [Req EXCEPT !.params.new_name = new_name,
                !.related = << Document(MainUri) >>
                              \o related_documents(related, Len(OtherUris))]

\* C10: rename returns a present result exactly when prepare-rename does for
\* the same current document and cursor, whatever the related documents and
\* the new name are.
C10_RenameApplicableIffPrepareRename ==
    (Served("prepare") \/ Served("rename")) =>
        LET prepared == is_some(LatexLabelPrepareRenameProvider_execute(Req))
        IN  /\ is_some(Out) = prepared
            /\ \A related \in SUBSET { OtherUris[i] : i \in DOMAIN OtherUris },
                  new_name \in NewNames :
                   is_some(LatexLabelRenameProvider_execute(AltRequest(related, new_name)))
                     = prepared

\* C10 witness: a rename to the empty name is applicable, as prepare-rename
\* says
C10_Witness ==
    /\ Served("rename") /\ is_some(Out)
    /\ Req.params.new_name = ""
    /\ is_some(LatexLabelPrepareRenameProvider_execute(Req))
    /\ workspace["bar"].kind = "Bibtex"
    /\ relatedOthers = {"bar"}

-----------------------------------------------------------------------------
(* Claims about entry-type completion, checked under SpecCompletion *)

\* the cursor is inside the type field of a Preamble, String or Entry
\* declaration of a BibTeX current document
CursorInTypeField ==
    LET main == workspace[MainUri]
    IN  /\ main.kind = "Bibtex"
        /\ \E i \in DOMAIN main.decls :
              /\ main.decls[i].tag # "Comment"
              /\ Cursor.line = i - 1
              /\ Cursor.character <= Len(main.decls[i].ty)

\* C6: with the cursor inside a type field of a BibTeX document, completion
\* returns the whole catalog built at construction: not empty, in the order
\* of the entry types, whatever the text at the cursor is.
C6_CompletionInTypeFieldIsFullCatalog ==
    (Served("completion") /\ CursorInTypeField) =>
        /\ Out # << >>
        /\ Out = items
        /\ Len(Out) = Len(entry_types)
        /\ \A i \in DOMAIN Out : Out[i].label = entry_types[i]

\* C6 witness: the document "@" with the cursor after the at sign, on the
\* line after a comment
C6_Witness ==
    /\ Served("completion")
    /\ workspace[MainUri] =
         DocumentContent_Bibtex(<< Decl("Comment", "", "foo"), Decl("Entry", "@", "") >>)
    /\ Cursor = Position_new(1, 1)
    /\ Len(Out) = 3

\* C7: with the cursor outside every type field (in an entry's body, in
\* comment text, or in a document that is not BibTeX) completion returns
\* the empty list.
C7_CompletionOutsideTypeFieldIsEmpty ==
    (Served("completion") /\ ~CursorInTypeField) => Out = << >>

\* C7 witness: the document "@article{foo,}" with the cursor at column 11,
\* inside the body of the entry
C7_Witness ==
    /\ Served("completion")
    /\ workspace[MainUri] = DocumentContent_Bibtex(<< Decl("Entry", "@article", "{foo,}") >>)
    /\ Cursor = Position_new(0, 11)
    /\ Out = << >>

-----------------------------------------------------------------------------
(* Claims about the ChoiceProviders, checked under SpecChoice *)

\* the registration order the claims state
StatedOrder == <<"BibtexEntry", "LatexCommand", "LatexEnvironment", "LatexLabel">>

\* what provider p returns for the request being served
ResultOf(p) == provider_execute(p, unwrap(request).op, Req, cp.would)

\* the places in the stated order of the providers with a usable result
UsablePlaces == { i \in DOMAIN StatedOrder : is_some(ResultOf(StatedOrder[i])) }

\* C5: the ChoiceProvider returns the result of the first provider, in the
\* order BibtexEntry, LatexCommand, LatexEnvironment, LatexLabel, whose
\* result is usable, unmerged, and absent when no result is usable.
C5_ChoiceReturnsFirstUsableResult ==
    (request # None /\ cp.pc = "done") =>
        /\ response # None
        /\ IF UsablePlaces = {} THEN Out = None
           ELSE LET first == CHOOSE i \in UsablePlaces : \A j \in UsablePlaces : i <= j
                IN  Out = ResultOf(StatedOrder[first])

\* C5 witness: the command provider and the label provider both have a
\* usable result for the rename, and the command provider's is returned
C5_Witness ==
    /\ request # None /\ cp.pc = "done"
    /\ unwrap(request).op = "rename"
    /\ UsablePlaces = {2, 4}
    /\ Out = Some([by |-> "LatexCommand"])

\* C8: within one request the candidates are invoked one at a time in
\* registration order, each only after the one before it has completed
\* with an unusable result; at most one is in flight; after a usable
\* result no candidate is invoked.
C8_ChoiceInvokesSequentially ==
    /\ Len(cp.invoked) <= Len(StatedOrder)
    /\ cp.invoked = SubSeq(StatedOrder, 1, Len(cp.invoked))
    /\ Len(cp.invoked) - Len(cp.returned) = (IF is_some(cp.inflight) THEN 1 ELSE 0)
    /\ \A j \in DOMAIN cp.returned : cp.returned[j].provider = cp.invoked[j]
    /\ is_some(cp.inflight) =>
          /\ unwrap(cp.inflight) = cp.invoked[Len(cp.invoked)]
          /\ \A j \in DOMAIN cp.returned : cp.returned[j].item = None
    /\ \A j \in DOMAIN cp.returned :
          is_some(cp.returned[j].item) =>
              /\ j = Len(cp.invoked)
              /\ cp.pc = "done"
              /\ cp.inflight = None

\* C8 witness: the fourth candidate is in flight after the three before it
\* have completed with an unusable result
C8_Witness ==
    /\ cp.pc = "await"
    /\ cp.inflight = Some("LatexLabel")
    /\ Len(cp.returned) = 3
    /\ \A j \in 1..3 : cp.returned[j].item = None

====
